---- MODULE Spec2Model ----
(***************************************************************************)
(* Campaign analytics of the advertiseMedia backend.                       *)
(*                                                                         *)
(* The state is the Campaign collection (models/Campaign.js), the          *)
(* analytics requests that have read a campaign and not yet saved it       *)
(* (updateCampaignAnalytics awaits findOne and then save), and the last    *)
(* response sent.  One action per controller handler                       *)
(* (controllers/campaignController.js); updateCampaignAnalytics is two     *)
(* actions, split at its await on campaign.save().                         *)
(*                                                                         *)
(* Numbers.  impressions and clicks are integers.  ctr is the double       *)
(* (clicks / impressions) * 100; a correctly rounded quotient and product  *)
(* depend only on the exact rational clicks/impressions, so ctr is kept as *)
(* that rational in lowest terms, <<numerator, denominator>>.              *)
(***************************************************************************)
EXTENDS Integers, Sequences, FiniteSets, TLC

\* ------------------------------------------------------------------ bounds
MaxCampaigns == 1      \* campaigns ever created
MaxUpdates   == 2      \* analytics updates that get past validation
MaxEdits     == 1      \* updateCampaign / Details / Status writes that match
MaxHookN     == 4      \* largest counter of a document handed to the hook
MaxHookSaves == 2      \* saves of one document by the hook on its own

Ids   == 1..MaxCampaigns
\* The ids requests name: the ids handed out and one that never is.
ReqIds == 1..(MaxCampaigns + 1)
Users == {"u1", "u2", "u3"}
Creators == {"u1"}     \* the users that create campaigns; the others only ask
Reqs  == {"r1", "r2"}

\* ------------------------------------------------------- rational numbers
RECURSIVE GCD(_, _)
GCD(a, b) == IF b = 0 THEN a ELSE GCD(b, a % b)

Frac(n, d) == LET g == GCD(n, d) IN <<n \div g, d \div g>>

FracZero == <<0, 1>>

FracOfInt(n) == <<n, 1>>

\* Number.prototype.toFixed(2) of a non-negative value, in hundredths.
ToFixed2(f) == (200 * f[1] + f[2]) \div (2 * f[2])

\* --------------------------------------------------------- request values
\* A JSON value of a request body, by its typeof.
Num(n) == [t |-> "number", v |-> n]
Str    == [t |-> "string", v |-> 0]
Undef  == [t |-> "undefined", v |-> 0]

\* {impressions, clicks} bodies sent to PUT /:id/analytics.
IncBodies ==
    { <<Num(0), Num(0)>>, <<Num(10), Num(5)>>, <<Num(0), Num(20)>>,
      <<Num(100), Num(10)>>, <<Num(50), Num(4)>>,
      <<Num(-1), Num(0)>>, <<Num(1), Undef>>, <<Str, Num(-1)>> }

\* ------------------------------------------------------------ the schema
\* campaignSchema.status: enum and default.
SchemaStatuses == {"ACTIVE", "PAUSED", "COMPLETED"}
DefaultStatus  == "ACTIVE"

\* campaignSchema.analytics: the three defaults.
DefaultAnalytics == [impressions |-> 0, clicks |-> 0, ctr |-> FracZero]

NoDoc == [exists |-> FALSE]

NewDoc(user) ==
    [exists |-> TRUE, advertiser |-> user, status |-> DefaultStatus,
     analytics |-> DefaultAnalytics]

\* campaignSchema.pre('save'): recompute ctr, only when impressions > 0.
\* (as it would be with "+=" for "=")
PreSaveAccumulates(a) ==
    IF a.impressions > 0
    THEN [a EXCEPT !.ctr = Frac(a.ctr[1] * a.impressions + a.clicks * 100 * a.ctr[2],
                                a.ctr[2] * a.impressions)]
    ELSE a

PreSave(a) ==
    IF a.impressions > 0
    THEN [a EXCEPT !.ctr = Frac(a.clicks * 100, a.impressions)]
    ELSE a

\* ------------------------------------------ updateCampaignAnalytics, pure
MsgNotNumbers == "Impressions and clicks must be numbers"
MsgNegative   == "Impressions and clicks cannot be negative"
MsgExceeds    == "Clicks cannot be greater than impressions"
MsgNotFound   == "Campaign not found"
MsgUpdated    == "Campaign analytics updated successfully"
MsgError      == "Error updating campaign analytics"

\* (as it would be with the two tests in the other order)
ValidateIncrementSignFirst(impressions, clicks) ==
    IF impressions.v < 0 \/ clicks.v < 0 THEN MsgNegative
    ELSE IF impressions.t # "number" \/ clicks.t # "number" THEN MsgNotNumbers
    ELSE "ok"

\* (as it would be with the typeof test alone)
ValidateIncrementTypeOnly(impressions, clicks) ==
    IF impressions.t # "number" \/ clicks.t # "number" THEN MsgNotNumbers
    ELSE "ok"

\* "Validate input": the typeof test, then the sign test.
ValidateIncrement(impressions, clicks) ==
    IF impressions.t # "number" \/ clicks.t # "number" THEN MsgNotNumbers
    ELSE IF impressions.v < 0 \/ clicks.v < 0 THEN MsgNegative
    ELSE "ok"

\* (x || 0) for a number x.
OrZero(x) == IF x = 0 THEN 0 ELSE x

\* (as it would be with the stored clicks left out of the sum)
NewCountersClicksReplaced(cur, impressions, clicks) ==
    [impressions |-> OrZero(cur.impressions) + impressions,
     clicks      |-> clicks]

\* (as it would be with the stored impressions left out of the sum)
NewCountersImpressionsReplaced(cur, impressions, clicks) ==
    [impressions |-> impressions,
     clicks      |-> OrZero(cur.clicks) + clicks]

\* "Increment analytics": newImpressions and newClicks.
NewCounters(cur, impressions, clicks) ==
    [impressions |-> OrZero(cur.impressions) + impressions,
     clicks      |-> OrZero(cur.clicks) + clicks]

\* newClicks > newImpressions
ExceedsImpressions(n) == n.clicks > n.impressions

\* (as it would be with the handler computing the ratio, not the percentage)
CalcCtrRatio(n) ==
    IF n.impressions > 0 THEN Frac(n.clicks, n.impressions) ELSE FracZero

\* "Calculate CTR" in the handler.
CalcCtr(n) ==
    IF n.impressions > 0 THEN Frac(n.clicks * 100, n.impressions) ELSE FracZero

\* campaign.analytics = { impressions, clicks, ctr }
AssignAnalytics(n) ==
    [impressions |-> n.impressions, clicks |-> n.clicks, ctr |-> CalcCtr(n)]

\* The analytics object of the 200 response.
AnalyticsJson(a) ==
    [impressions |-> a.impressions, clicks |-> a.clicks, ctr |-> ToFixed2(a.ctr)]

\* ------------------------------------------------------------------ state
VARIABLES
    db,         \* Campaign collection: id -> document or NoDoc
    nextId,     \* the next _id Campaign.create hands out
    inflight,   \* per request slot: an analytics update between findOne and save
    resp,       \* the last response sent (or the pending mark of a begun update)
    last2,      \* per id: the last (at most two) analytics updates applied in sequence
    nUpdates,   \* analytics updates that passed validation so far
    nEdits,     \* findOneAndUpdate / findByIdAndUpdate writes so far
    hookDoc,    \* the document analytics the pre-save hook is run on in isolation
    hookSaves,  \* how many times hookDoc has been saved
    caller,     \* the credential of the request the last step belongs to
    credOf,     \* per request slot: the credential of the request in flight
    expected    \* per id: the counters as they are if every answered update counts

vars == <<db, nextId, inflight, resp, last2, nUpdates, nEdits,
          hookDoc, hookSaves, caller, credOf, expected>>

appVars  == <<db, nextId, inflight, resp, last2, nUpdates, nEdits,
              caller, credOf, expected>>
hookVars == <<hookDoc, hookSaves>>

Idle == [pc |-> "idle"]

NoRead    == [found |-> FALSE]
Read(a)   == [found |-> TRUE, impressions |-> a.impressions, clicks |-> a.clicks,
              ctr |-> a.ctr]
NoPayload == [none |-> TRUE]

Resp(op, id, req, code, message, read, payload) ==
    [op |-> op, id |-> id, req |-> req, code |-> code, message |-> message,
     read |-> read, payload |-> payload]

Init ==
    /\ db = [i \in ReqIds |-> NoDoc]
    /\ nextId = 1
    /\ inflight = [r \in Reqs |-> Idle]
    /\ resp = Resp("none", 0, NoPayload, 0, "", NoRead, NoPayload)
    /\ last2 = [i \in ReqIds |-> <<>>]
    /\ nUpdates = 0
    /\ nEdits = 0
    /\ hookDoc = DefaultAnalytics
    /\ hookSaves = 0
    /\ caller = "-"
    /\ credOf = [r \in Reqs |-> "-"]
    /\ expected = [i \in ReqIds |-> [impressions |-> 0, clicks |-> 0]]

\* Request slots are anonymous: a new request takes the first free one.
SlotBefore(q, r) == q = "r1" /\ r = "r2"

\* Keep the last two entries.
Push2(s, e) == IF Len(s) < 2 THEN Append(s, e) ELSE <<s[2], e>>

\* (as it would be with the counters written before the clicks are tested)
UpdateAnalyticsBeginEager(r, id, body, dbOk) ==
    LET op   == "updateCampaignAnalytics"
        chk  == ValidateIncrement(body[1], body[2])
        cur  == db[id].analytics
        n    == NewCounters(cur, body[1].v, body[2].v)
    IN
    /\ inflight[r] = Idle
    /\ \A q \in Reqs : inflight[q] = Idle => ~SlotBefore(q, r)
    /\ IF chk # "ok"
       THEN /\ resp' = Resp(op, id, body, 400, chk, NoRead, NoPayload)
            /\ UNCHANGED <<db, nextId, inflight, last2, nUpdates, nEdits>>
       ELSE IF ~dbOk
       THEN /\ resp' = Resp(op, id, body, 500, MsgError, NoRead, NoPayload)
            /\ UNCHANGED <<db, nextId, inflight, last2, nUpdates, nEdits>>
       ELSE IF ~db[id].exists
       THEN /\ resp' = Resp(op, id, body, 404, MsgNotFound, NoRead, NoPayload)
            /\ UNCHANGED <<db, nextId, inflight, last2, nUpdates, nEdits>>
       ELSE IF ExceedsImpressions(n)
       THEN /\ resp' = Resp(op, id, body, 400, MsgExceeds, Read(cur), NoPayload)
            /\ db' = [db EXCEPT ![id].analytics.impressions = n.impressions,
                                ![id].analytics.clicks = n.clicks]
            /\ UNCHANGED <<nextId, inflight, last2, nUpdates, nEdits>>
       ELSE /\ nUpdates < MaxUpdates
            /\ nUpdates' = nUpdates + 1
            /\ inflight' = [inflight EXCEPT ![r] =
                   [pc |-> "saving", id |-> id, body |-> body, read |-> cur,
                    analytics |-> AssignAnalytics(n)]]
            /\ resp' = Resp(op, id, body, 0, "pending", Read(cur), NoPayload)
            /\ UNCHANGED <<db, nextId, last2, nEdits>>
    /\ UNCHANGED hookVars

\* updateCampaignAnalytics up to its await on campaign.save(): validation,
\* findOne, the increment, the clicks <= impressions test, the assignment.
UpdateAnalyticsBegin(r, id, body, dbOk) ==
    LET op   == "updateCampaignAnalytics"
        chk  == ValidateIncrement(body[1], body[2])
        cur  == db[id].analytics
        n    == NewCounters(cur, body[1].v, body[2].v)
    IN
    /\ inflight[r] = Idle
    /\ \A q \in Reqs : inflight[q] = Idle => ~SlotBefore(q, r)
    /\ IF chk # "ok"
       THEN /\ resp' = Resp(op, id, body, 400, chk, NoRead, NoPayload)
            /\ UNCHANGED <<db, nextId, inflight, last2, nUpdates, nEdits>>
       ELSE IF ~dbOk
       THEN /\ resp' = Resp(op, id, body, 500, MsgError, NoRead, NoPayload)
            /\ UNCHANGED <<db, nextId, inflight, last2, nUpdates, nEdits>>
       ELSE IF ~db[id].exists
       THEN /\ resp' = Resp(op, id, body, 404, MsgNotFound, NoRead, NoPayload)
            /\ UNCHANGED <<db, nextId, inflight, last2, nUpdates, nEdits>>
       ELSE IF ExceedsImpressions(n)
       THEN /\ resp' = Resp(op, id, body, 400, MsgExceeds, Read(cur), NoPayload)
            /\ UNCHANGED <<db, nextId, inflight, last2, nUpdates, nEdits>>
       ELSE /\ nUpdates < MaxUpdates
            /\ nUpdates' = nUpdates + 1
            /\ inflight' = [inflight EXCEPT ![r] =
                   [pc |-> "saving", id |-> id, body |-> body, read |-> cur,
                    analytics |-> AssignAnalytics(n)]]
            /\ resp' = Resp(op, id, body, 0, "pending", Read(cur), NoPayload)
            /\ UNCHANGED <<db, nextId, last2, nEdits>>
    /\ UNCHANGED hookVars

\* (as it would be with an atomic $inc of the stored counters and the ctr
\* computed from the result)
UpdateAnalyticsSaveAtomic(r, dbOk) ==
    LET op == "updateCampaignAnalytics"
        f  == inflight[r]
        a  == PreSave(AssignAnalytics(
                  NewCounters(db[f.id].analytics, f.body[1].v, f.body[2].v)))
    IN
    /\ inflight[r] # Idle
    /\ inflight' = [inflight EXCEPT ![r] = Idle]
    /\ IF dbOk /\ db[f.id].exists
       THEN /\ db' = [db EXCEPT ![f.id].analytics = a]
            /\ last2' = [last2 EXCEPT ![f.id] = <<>>]
            /\ resp' = Resp(op, f.id, f.body, 200, MsgUpdated, Read(f.read),
                            AnalyticsJson(a))
       ELSE /\ resp' = Resp(op, f.id, f.body, 500, MsgError, Read(f.read), NoPayload)
            /\ UNCHANGED <<db, last2>>
    /\ UNCHANGED <<nextId, nUpdates, nEdits>>
    /\ UNCHANGED hookVars

\* (as it would be with a save that inserts the document it no longer finds)
UpdateAnalyticsSaveUpsert(r, dbOk) ==
    LET op == "updateCampaignAnalytics"
        f  == inflight[r]
        a  == PreSave(f.analytics)
    IN
    /\ inflight[r] # Idle
    /\ inflight' = [inflight EXCEPT ![r] = Idle]
    /\ IF dbOk
       THEN /\ db' = [db EXCEPT ![f.id] =
                   IF @.exists THEN [@ EXCEPT !.analytics = a]
                   ELSE [NewDoc(CHOOSE u \in Creators : TRUE) EXCEPT !.analytics = a]]
            /\ last2' = [last2 EXCEPT ![f.id] = <<>>]
            /\ resp' = Resp(op, f.id, f.body, 200, MsgUpdated, Read(f.read),
                            AnalyticsJson(a))
       ELSE /\ resp' = Resp(op, f.id, f.body, 500, MsgError, Read(f.read), NoPayload)
            /\ UNCHANGED <<db, last2>>
    /\ UNCHANGED <<nextId, nUpdates, nEdits>>
    /\ UNCHANGED hookVars

\* (as it would be with the counters incremented in the store by updateOne
\* and the ctr the request computed from what it had read)
UpdateAnalyticsSaveCountersOnly(r, dbOk) ==
    LET op == "updateCampaignAnalytics"
        f  == inflight[r]
        n  == NewCounters(db[f.id].analytics, f.body[1].v, f.body[2].v)
        a  == [impressions |-> n.impressions, clicks |-> n.clicks,
               ctr |-> f.analytics.ctr]
    IN
    /\ inflight[r] # Idle
    /\ inflight' = [inflight EXCEPT ![r] = Idle]
    /\ IF dbOk /\ db[f.id].exists
       THEN /\ db' = [db EXCEPT ![f.id].analytics = a]
            /\ last2' = [last2 EXCEPT ![f.id] = <<>>]
            /\ resp' = Resp(op, f.id, f.body, 200, MsgUpdated, Read(f.read),
                            AnalyticsJson(a))
       ELSE /\ resp' = Resp(op, f.id, f.body, 500, MsgError, Read(f.read), NoPayload)
            /\ UNCHANGED <<db, last2>>
    /\ UNCHANGED <<nextId, nUpdates, nEdits>>
    /\ UNCHANGED hookVars

\* await campaign.save() and the response: the pre-save hook, the write of
\* the modified path analytics, then res.json; a rejected save goes to catch.
UpdateAnalyticsSave(r, dbOk) ==
    LET op == "updateCampaignAnalytics"
        f  == inflight[r]
        a  == PreSave(f.analytics)
    IN
    /\ inflight[r] # Idle
    /\ inflight' = [inflight EXCEPT ![r] = Idle]
    /\ IF dbOk /\ db[f.id].exists
       THEN /\ db' = [db EXCEPT ![f.id].analytics = a]
            /\ last2' = [last2 EXCEPT ![f.id] =
                   IF f.read = db[f.id].analytics
                   THEN Push2(@, [base |-> f.read,
                                  inc |-> <<f.body[1].v, f.body[2].v>>])
                   ELSE <<>>]
            /\ resp' = Resp(op, f.id, f.body, 200, MsgUpdated, Read(f.read),
                            AnalyticsJson(a))
       ELSE /\ resp' = Resp(op, f.id, f.body, 500, MsgError, Read(f.read), NoPayload)
            /\ UNCHANGED <<db, last2>>
    /\ UNCHANGED <<nextId, nUpdates, nEdits>>
    /\ UNCHANGED hookVars

\* ------------------------------------------- bodies of the update routes
\* Keys a JSON update body may carry, next to the ones the handlers name.
EditKeys == {"status", "analytics.impressions", "analytics.clicks", "analytics.ctr"}

Body(k, s, i, c, t) ==
    [keys |-> k, status |-> s, impressions |-> i, clicks |-> c, ctr |-> t]

\* The bodies sent; a key that is absent carries a placeholder value.
UpdateBodies ==
    { Body({"status"}, "PAUSED", 0, 0, 0),
      Body({"status"}, "ARCHIVED", 0, 0, 0),
      Body({"analytics.ctr"}, "ACTIVE", 0, 0, 77),
      Body(EditKeys, "PAUSED", 1, 2, 77) }

\* What a create request carries next to the eight fields createCampaign reads.
CreateBodies == { Body({}, "ACTIVE", 0, 0, 0), Body(EditKeys, "PAUSED", 1, 2, 77) }

\* The update document applied by findOneAndUpdate / findByIdAndUpdate: each
\* key of the body is set on the stored document; no hook and no validator runs.
ApplyUpdate(doc, b) ==
    [doc EXCEPT
       !.status = IF "status" \in b.keys THEN b.status ELSE @,
       !.analytics.impressions =
           IF "analytics.impressions" \in b.keys THEN b.impressions ELSE @,
       !.analytics.clicks =
           IF "analytics.clicks" \in b.keys THEN b.clicks ELSE @,
       !.analytics.ctr =
           IF "analytics.ctr" \in b.keys THEN FracOfInt(b.ctr) ELSE @]

\* The history of sequential analytics updates ends when another write
\* replaces the counters.
Last2After(id, old, new) ==
    IF new.exists /\ old.exists /\ new.analytics = old.analytics
    THEN last2 ELSE [last2 EXCEPT ![id] = <<>>]

\* ------------------------------------------------------------ createCampaign
\* File: "none" (no req.file), "ok" or "fail" (cloudinary upload throws).
Files == {"none", "ok", "fail"}

\* (as it would be with the whole of req.body handed to Campaign.create)
CreatedDocFromBody(user, body) ==
    [ApplyUpdate(NewDoc(user), body) EXCEPT
       !.analytics = PreSave(ApplyUpdate(NewDoc(user), body).analytics)]

\* Campaign.create with the eight named fields: the schema defaults fill
\* status and analytics, validation runs, then the pre-save hook.
CreatedDoc(user, body) ==
    [NewDoc(user) EXCEPT !.analytics = PreSave(DefaultAnalytics)]

CreateCampaign(user, file, fieldsOk, body, dbOk) ==
    LET op == "createCampaign" IN
    /\ IF file = "none"
       THEN /\ resp' = Resp(op, 0, NoPayload, 400, "Image is required", NoRead, NoPayload)
            /\ UNCHANGED <<db, nextId>>
       ELSE IF file = "fail" \/ ~fieldsOk \/ ~dbOk
       THEN /\ resp' = Resp(op, 0, NoPayload, 500, "Error creating campaign", NoRead, NoPayload)
            /\ UNCHANGED <<db, nextId>>
       ELSE /\ nextId <= MaxCampaigns
            /\ db' = [db EXCEPT ![nextId] = CreatedDoc(user, body)]
            /\ nextId' = nextId + 1
            /\ resp' = Resp(op, nextId, body, 201, "Campaign created successfully",
                            NoRead, CreatedDoc(user, body))
    /\ UNCHANGED <<inflight, last2, nUpdates, nEdits>>
    /\ UNCHANGED hookVars

\* ------------------------------------------------------------ updateCampaign
\* findOneAndUpdate({_id, advertiser: req.user.userId}, {...req.body})
UpdateCampaign(user, id, body, file, dbOk) ==
    LET op  == "updateCampaign"
        new == ApplyUpdate(db[id], body)
    IN
    /\ IF file = "fail" \/ ~dbOk
       THEN /\ resp' = Resp(op, 0, NoPayload, 500, "Error updating campaign", NoRead, NoPayload)
            /\ UNCHANGED <<db, last2, nEdits>>
       ELSE IF ~(db[id].exists /\ db[id].advertiser = user)
       THEN /\ resp' = Resp(op, id, NoPayload, 404, MsgNotFound, NoRead, NoPayload)
            /\ UNCHANGED <<db, last2, nEdits>>
       ELSE /\ nEdits < MaxEdits
            /\ nEdits' = nEdits + 1
            /\ db' = [db EXCEPT ![id] = new]
            /\ last2' = Last2After(id, db[id], new)
            /\ resp' = Resp(op, id, NoPayload, 200, "Campaign updated successfully",
                            Read(db[id].analytics), new)
    /\ UNCHANGED <<nextId, inflight, nUpdates>>
    /\ UNCHANGED hookVars

\* ----------------------------------------------------- updateCampaignDetails
\* findByIdAndUpdate(req.params.id, req.body)
UpdateCampaignDetails(id, body, dbOk) ==
    LET op  == "updateCampaignDetails"
        new == ApplyUpdate(db[id], body)
    IN
    /\ IF ~dbOk
       THEN /\ resp' = Resp(op, 0, NoPayload, 500, "Error updating campaign details", NoRead, NoPayload)
            /\ UNCHANGED <<db, last2, nEdits>>
       ELSE IF ~db[id].exists
       THEN /\ resp' = Resp(op, id, NoPayload, 404, MsgNotFound, NoRead, NoPayload)
            /\ UNCHANGED <<db, last2, nEdits>>
       ELSE /\ nEdits < MaxEdits
            /\ nEdits' = nEdits + 1
            /\ db' = [db EXCEPT ![id] = new]
            /\ last2' = Last2After(id, db[id], new)
            /\ resp' = Resp(op, id, NoPayload, 200, "Campaign details updated successfully",
                            Read(db[id].analytics), new)
    /\ UNCHANGED <<nextId, inflight, nUpdates>>
    /\ UNCHANGED hookVars

\* ------------------------------------------------------ updateCampaignStatus
\* (as it would be with one more status let through)
validStatusesAndArchived == {"PENDING", "ACTIVE", "PAUSED", "COMPLETED", "ARCHIVED"}

validStatuses == {"PENDING", "ACTIVE", "PAUSED", "COMPLETED"}

\* req.body.status as sent: a status string, or no status key at all.
MissingStatus == "undefined"
StatusInputs  == validStatuses \cup {"ARCHIVED", MissingStatus}

\* findByIdAndUpdate(req.params.id, { status })
SetStatus(doc, status) == [doc EXCEPT !.status = status]

UpdateCampaignStatus(id, status, dbOk) ==
    LET op  == "updateCampaignStatus"
        new == SetStatus(db[id], status)
    IN
    /\ IF status \notin validStatuses
       THEN /\ resp' = Resp(op, id, status, 400, "Invalid status value", NoRead, NoPayload)
            /\ UNCHANGED <<db, last2, nEdits>>
       ELSE IF ~dbOk
       THEN /\ resp' = Resp(op, id, status, 500, "Error updating campaign status", NoRead, NoPayload)
            /\ UNCHANGED <<db, last2, nEdits>>
       ELSE IF ~db[id].exists
       THEN /\ resp' = Resp(op, id, status, 404, MsgNotFound, NoRead, NoPayload)
            /\ UNCHANGED <<db, last2, nEdits>>
       ELSE /\ nEdits < MaxEdits
            /\ nEdits' = nEdits + 1
            /\ db' = [db EXCEPT ![id] = new]
            /\ last2' = Last2After(id, db[id], new)
            /\ resp' = Resp(op, id, status, 200, "Campaign status updated successfully",
                            Read(db[id].analytics), [id |-> id, status |-> new.status])
    /\ UNCHANGED <<nextId, inflight, nUpdates>>
    /\ UNCHANGED hookVars

\* ------------------------------------------------------------ deleteCampaign
\* (as it would be with findByIdAndDelete(req.params.id))
DeleteCampaignById(user, id, dbOk) ==
    LET op == "deleteCampaign" IN
    /\ IF ~dbOk
       THEN /\ resp' = Resp(op, 0, NoPayload, 500, "Error deleting campaign", NoRead, NoPayload)
            /\ UNCHANGED <<db, last2>>
       ELSE IF ~db[id].exists
       THEN /\ resp' = Resp(op, id, NoPayload, 404, MsgNotFound, NoRead, NoPayload)
            /\ UNCHANGED <<db, last2>>
       ELSE /\ db' = [db EXCEPT ![id] = NoDoc]
            /\ last2' = [last2 EXCEPT ![id] = <<>>]
            /\ resp' = Resp(op, id, NoPayload, 200, "Campaign deleted successfully",
                            NoRead, NoPayload)
    /\ UNCHANGED <<nextId, inflight, nUpdates, nEdits>>
    /\ UNCHANGED hookVars

\* findOneAndDelete({_id, advertiser: req.user.userId})
DeleteCampaign(user, id, dbOk) ==
    LET op == "deleteCampaign" IN
    /\ IF ~dbOk
       THEN /\ resp' = Resp(op, 0, NoPayload, 500, "Error deleting campaign", NoRead, NoPayload)
            /\ UNCHANGED <<db, last2>>
       ELSE IF ~(db[id].exists /\ db[id].advertiser = user)
       THEN /\ resp' = Resp(op, id, NoPayload, 404, MsgNotFound, NoRead, NoPayload)
            /\ UNCHANGED <<db, last2>>
       ELSE /\ db' = [db EXCEPT ![id] = NoDoc]
            /\ last2' = [last2 EXCEPT ![id] = <<>>]
            /\ resp' = Resp(op, id, NoPayload, 200, "Campaign deleted successfully",
                            NoRead, NoPayload)
    /\ UNCHANGED <<nextId, inflight, nUpdates, nEdits>>
    /\ UNCHANGED hookVars

\* ------------------------------------------------------ getCampaignAnalytics
\* findOne({_id, advertiser: req.user.userId})
GetCampaignAnalytics(user, id, dbOk) ==
    LET op == "getCampaignAnalytics" IN
    /\ resp' =
         IF ~dbOk
         THEN Resp(op, 0, NoPayload, 500, "Error fetching campaign analytics", NoRead, NoPayload)
         ELSE IF ~(db[id].exists /\ db[id].advertiser = user)
         THEN Resp(op, id, NoPayload, 404, MsgNotFound, NoRead, NoPayload)
         ELSE Resp(op, id, NoPayload, 200, "", Read(db[id].analytics),
                   AnalyticsJson(db[id].analytics))
    /\ UNCHANGED <<db, nextId, inflight, last2, nUpdates, nEdits>>
    /\ UNCHANGED hookVars

\* --------------------------------------------------------------- getCampaign
\* findById(req.params.id)
GetCampaign(id, dbOk) ==
    LET op == "getCampaign" IN
    /\ resp' =
         IF ~dbOk
         THEN Resp(op, 0, NoPayload, 500, "Error fetching campaign", NoRead, NoPayload)
         ELSE IF ~db[id].exists
         THEN Resp(op, id, NoPayload, 404, MsgNotFound, NoRead, NoPayload)
         ELSE Resp(op, id, NoPayload, 200, "", Read(db[id].analytics), db[id])
    /\ UNCHANGED <<db, nextId, inflight, last2, nUpdates, nEdits>>
    /\ UNCHANGED hookVars

\* ------------------------------------------------------------ middleware
\* The credential a request presents: no valid bearer token, or a user's.
Anon  == "anon"
Creds == {Anon} \cup Users

\* User.role of the three users.
Role(u) == IF u = "u3" THEN "ADMIN" ELSE "ADVERTISER"

\* isAuth lets a request with a valid token through, as req.user.
IsAuth(cred) == cred \in Users

\* checkRole(roles) lets req.user through when its role is one of roles.
CheckRole(cred, roles) == Role(cred) \in roles

MsgUnauthorized == "Unauthorized"
MsgForbidden    == "Forbidden"

\* A middleware answers and the handler is not called.
Deny(op, code, message) ==
    /\ resp' = Resp(op, 0, NoPayload, code, message, NoRead, NoPayload)
    /\ UNCHANGED <<db, nextId, inflight, last2, nUpdates, nEdits>>
    /\ UNCHANGED hookVars

Counters(a) == [impressions |-> a.impressions, clicks |-> a.clicks]

\* The counters to expect after a step that is not the save of an analytics
\* update: a write of the counters by anything else starts the count anew.
ExpectedAfter ==
    [i \in ReqIds |->
        IF ~db'[i].exists THEN [impressions |-> 0, clicks |-> 0]
        ELSE IF ~db[i].exists \/ Counters(db'[i].analytics) # Counters(db[i].analytics)
        THEN Counters(db'[i].analytics)
        ELSE expected[i]]

Tracked(cred) ==
    /\ caller' = cred
    /\ UNCHANGED credOf
    /\ expected' = ExpectedAfter

\* Of the users that pass checkRole(['ADVERTISER']) only Creators create.
CreateCreds == { c \in Creds : (IsAuth(c) /\ Role(c) = "ADVERTISER") => c \in Creators }

\* Who asks each route: a handler that reads no req.user is asked by one
\* user of each role its route tells apart, and a route with no middleware
\* (no code reads the credential) without a token.
PublicCreds  == {Anon}
GetCreds     == {Anon}
StatusCreds  == {Anon, "u1", "u3"}
DetailsCreds == {Anon, "u1"}
OwnerCreds   == Creds
ReaderCreds  == {Anon, "u1", "u2"}

\* The requests sent to each route. A fault (a failed upload, a rejected
\* document, a store that throws) is answered before anything else of the
\* request matters, so each is sent with one request per id.
NoBody == Body({}, "ACTIVE", 0, 0, 0)

CreateRequests ==
    { <<"ok", TRUE, b, TRUE>> : b \in CreateBodies }
      \cup { <<"none", TRUE, NoBody, TRUE>>, <<"fail", TRUE, NoBody, TRUE>>,
             <<"ok", FALSE, NoBody, TRUE>>, <<"ok", TRUE, NoBody, FALSE>> }

IncRequests ==
    (ReqIds \X IncBodies \X {TRUE}) \cup (ReqIds \X {<<Num(10), Num(5)>>} \X {FALSE})

PutRequests ==
    (ReqIds \X UpdateBodies \X {"ok"} \X {TRUE})
      \cup { <<1, NoBody, "fail", TRUE>>, <<1, NoBody, "none", FALSE>> }

DetailsRequests ==
    (ReqIds \X UpdateBodies \X {TRUE}) \cup { <<1, NoBody, FALSE>> }

StatusRequests ==
    (ReqIds \X StatusInputs \X {TRUE}) \cup (ReqIds \X {"ACTIVE"} \X {FALSE})

IdRequests == (ReqIds \X {TRUE}) \cup { <<1, FALSE>> }

\* ------------------------------------------------------------------ routes
\* router.post('/', isAuth, checkRole(['ADVERTISER']), upload.single('image'), createCampaign)
RouteCreate(cred, file, fieldsOk, body, dbOk) ==
    /\ IF ~IsAuth(cred) THEN Deny("createCampaign", 401, MsgUnauthorized)
       ELSE IF ~CheckRole(cred, {"ADVERTISER"}) THEN Deny("createCampaign", 403, MsgForbidden)
       ELSE CreateCampaign(cred, file, fieldsOk, body, dbOk)
    /\ Tracked(cred)

\* router.get('/:id', getCampaign)
RouteGet(cred, id, dbOk) ==
    /\ GetCampaign(id, dbOk)
    /\ Tracked(cred)

\* router.get('/:id/analytics', isAuth, getCampaignAnalytics)
RouteGetAnalytics(cred, id, dbOk) ==
    /\ IF ~IsAuth(cred) THEN Deny("getCampaignAnalytics", 401, MsgUnauthorized)
       ELSE GetCampaignAnalytics(cred, id, dbOk)
    /\ Tracked(cred)

\* router.put('/:id/analytics',  updateCampaignAnalytics)
RoutePutAnalytics(cred, r, id, body, dbOk) ==
    /\ UpdateAnalyticsBegin(r, id, body, dbOk)
    /\ caller' = cred
    /\ credOf' = [credOf EXCEPT ![r] = IF inflight'[r] # Idle THEN cred ELSE "-"]
    /\ expected' = ExpectedAfter

\* The rest of that request, after its await on campaign.save().
ContinueAnalyticsSave(r, dbOk) ==
    /\ UpdateAnalyticsSave(r, dbOk)
    /\ caller' = credOf[r]
    /\ credOf' = [credOf EXCEPT ![r] = "-"]
    /\ expected' =
         IF resp'.code = 200
         THEN [expected EXCEPT ![inflight[r].id] =
                 [impressions |-> @.impressions + inflight[r].body[1].v,
                  clicks      |-> @.clicks + inflight[r].body[2].v]]
         ELSE expected

\* router.put('/:id/status', isAuth, updateCampaignStatus)
RoutePutStatus(cred, id, status, dbOk) ==
    /\ IF ~IsAuth(cred) THEN Deny("updateCampaignStatus", 401, MsgUnauthorized)
       ELSE UpdateCampaignStatus(id, status, dbOk)
    /\ Tracked(cred)

\* router.put('/:id/details', isAuth, checkRole(['ADVERTISER', 'ADMIN']), updateCampaignDetails)
RoutePutDetails(cred, id, body, dbOk) ==
    /\ IF ~IsAuth(cred) THEN Deny("updateCampaignDetails", 401, MsgUnauthorized)
       ELSE IF ~CheckRole(cred, {"ADVERTISER", "ADMIN"})
       THEN Deny("updateCampaignDetails", 403, MsgForbidden)
       ELSE UpdateCampaignDetails(id, body, dbOk)
    /\ Tracked(cred)

\* router.put('/:id', isAuth, checkRole(['ADVERTISER']), upload.single('image'), updateCampaign)
RoutePut(cred, id, body, file, dbOk) ==
    /\ IF ~IsAuth(cred) THEN Deny("updateCampaign", 401, MsgUnauthorized)
       ELSE IF ~CheckRole(cred, {"ADVERTISER"}) THEN Deny("updateCampaign", 403, MsgForbidden)
       ELSE UpdateCampaign(cred, id, body, file, dbOk)
    /\ Tracked(cred)

\* router.delete('/:id', isAuth, checkRole(['ADVERTISER']), deleteCampaign)
RouteDelete(cred, id, dbOk) ==
    /\ IF ~IsAuth(cred) THEN Deny("deleteCampaign", 401, MsgUnauthorized)
       ELSE IF ~CheckRole(cred, {"ADVERTISER"}) THEN Deny("deleteCampaign", 403, MsgForbidden)
       ELSE DeleteCampaign(cred, id, dbOk)
    /\ Tracked(cred)

Next ==
    \/ \E cred \in CreateCreds :
          IF IsAuth(cred) /\ CheckRole(cred, {"ADVERTISER"})
          THEN \E q \in CreateRequests : RouteCreate(cred, q[1], q[2], q[3], q[4])
          ELSE RouteCreate(cred, "none", TRUE, NoBody, TRUE)
    \/ \E cred \in PublicCreds, r \in Reqs, q \in IncRequests :
          RoutePutAnalytics(cred, r, q[1], q[2], q[3])
    \/ \E r \in Reqs, dbOk \in BOOLEAN : ContinueAnalyticsSave(r, dbOk)
    \/ \E cred \in OwnerCreds :
          IF IsAuth(cred) /\ CheckRole(cred, {"ADVERTISER"})
          THEN \E q \in PutRequests : RoutePut(cred, q[1], q[2], q[3], q[4])
          ELSE RoutePut(cred, 1, NoBody, "none", TRUE)
    \/ \E cred \in DetailsCreds :
          IF IsAuth(cred)
          THEN \E q \in DetailsRequests : RoutePutDetails(cred, q[1], q[2], q[3])
          ELSE RoutePutDetails(cred, 1, NoBody, TRUE)
    \/ \E cred \in StatusCreds :
          IF IsAuth(cred)
          THEN \E q \in StatusRequests : RoutePutStatus(cred, q[1], q[2], q[3])
          ELSE RoutePutStatus(cred, 1, "ACTIVE", TRUE)
    \/ \E cred \in OwnerCreds :
          IF IsAuth(cred) /\ CheckRole(cred, {"ADVERTISER"})
          THEN \E q \in IdRequests : RouteDelete(cred, q[1], q[2])
          ELSE RouteDelete(cred, 1, TRUE)
    \/ \E cred \in ReaderCreds :
          IF IsAuth(cred)
          THEN \E q \in IdRequests : RouteGetAnalytics(cred, q[1], q[2])
          ELSE RouteGetAnalytics(cred, 1, TRUE)
    \/ \E cred \in GetCreds, q \in IdRequests : RouteGet(cred, q[1], q[2])

Spec == Init /\ [][Next]_vars

\* ------------------------------------------------- the pre-save hook alone
\* A document of any content is saved, and saved again: save() runs the hook
\* on whatever the document holds.
HookCtrs == {FracZero, FracOfInt(77), Frac(100, 3)}

InitHook ==
    /\ Init!1 /\ Init!2 /\ Init!3 /\ Init!4 /\ Init!5 /\ Init!6 /\ Init!7
    /\ Init!10 /\ Init!11 /\ Init!12
    /\ hookDoc \in [impressions : 0..MaxHookN, clicks : 0..MaxHookN, ctr : HookCtrs]
    /\ hookSaves = 0

HookSave ==
    /\ hookSaves < MaxHookSaves
    /\ hookDoc' = PreSave(hookDoc)
    /\ hookSaves' = hookSaves + 1
    /\ UNCHANGED appVars

NextHook == HookSave

SpecHook == InitHook /\ [][NextHook]_vars

\* ================================================================== claims
IsAnalyticsResp == resp.op = "updateCampaignAnalytics"

\* ctr f is the value clicks / impressions * 100 (0 when impressions = 0).
CtrIsDerived(f, impressions, clicks) ==
    IF impressions > 0
    THEN f[1] * impressions = clicks * 100 * f[2]
    ELSE f = FracZero

\* C1: every stored campaign has analytics.clicks <= analytics.impressions.
C1_ClicksWithinImpressions ==
    \A id \in ReqIds :
        db[id].exists => db[id].analytics.clicks <= db[id].analytics.impressions

\* C2: the stored ctr of every campaign is clicks / impressions * 100, or 0
\* when impressions = 0; no request stores a ctr of its own.
C2_CtrAlwaysDerived ==
    \A id \in ReqIds :
        db[id].exists =>
            CtrIsDerived(db[id].analytics.ctr, db[id].analytics.impressions,
                         db[id].analytics.clicks)

\* C3: an accepted analytics update of increment (i, c), read at counters
\* (I, C), stores impressions I + i, clicks C + c and the ctr derived from
\* them, and answers with those impressions and clicks; (100, 10) plus
\* (50, 4) answers ctr "9.33".
C3_AcceptedIncrementStored ==
    (IsAnalyticsResp /\ resp.code = 200) =>
        LET i == resp.read.impressions + resp.req[1].v
            c == resp.read.clicks + resp.req[2].v
            a == db[resp.id].analytics
        IN /\ db[resp.id].exists
           /\ a.impressions = i
           /\ a.clicks = c
           /\ CtrIsDerived(a.ctr, i, c)
           /\ resp.payload.impressions = i
           /\ resp.payload.clicks = c
           /\ (i = 150 /\ c = 14) => resp.payload.ctr = 933

C3_Witness ==
    /\ IsAnalyticsResp /\ resp.code = 200
    /\ resp.read.impressions = 100 /\ resp.read.clicks = 10
    /\ resp.req = <<Num(50), Num(4)>>
    /\ db[resp.id].analytics.impressions = 150

\* C4: updateCampaignAnalytics decides by the first failing check: a
\* non-number increment is 400 "must be numbers"; else a negative one is 400
\* "cannot be negative"; else, for a campaign that was found, clicks beyond
\* impressions after the increment is 400 "cannot be greater".
C4_ValidationOrder ==
    IsAnalyticsResp =>
        LET i == resp.req[1]
            c == resp.req[2]
            numbers  == i.t = "number" /\ c.t = "number"
            negative == i.v < 0 \/ c.v < 0
        IN /\ ~numbers => (resp.code = 400 /\ resp.message = MsgNotNumbers)
           /\ (numbers /\ negative) =>
                  (resp.code = 400 /\ resp.message = MsgNegative)
           /\ (numbers /\ ~negative /\ resp.read.found
                 /\ resp.read.clicks + c.v > resp.read.impressions + i.v) =>
                  (resp.code = 400 /\ resp.message = MsgExceeds)
           /\ resp.message \in {MsgNotNumbers, MsgNegative, MsgExceeds} =>
                  resp.code = 400

C4_Witness ==
    /\ IsAnalyticsResp /\ resp.code = 400 /\ resp.message = MsgExceeds
    /\ resp.read.found /\ resp.read.impressions = 10 /\ resp.read.clicks = 5
    /\ resp.req = <<Num(0), Num(20)>>

\* C5: a step in which updateCampaignAnalytics answers 400 leaves every
\* stored campaign exactly as it was.
C5_RejectionKeepsRecord ==
    [][(resp'.op = "updateCampaignAnalytics" /\ resp'.code = 400) => db' = db]_vars

C5_Witness ==
    /\ IsAnalyticsResp /\ resp.code = 400 /\ resp.message = MsgExceeds
    /\ db[resp.id].exists /\ db[resp.id].analytics.impressions > 0

\* C6: two analytics updates (a, b) then (c, d), applied one after the other
\* to counters (I, C) with C <= I, store what the single update
\* (a + c, b + d) stores.
C6_SequentialIncrementsAdd ==
    \A id \in ReqIds :
        (Len(last2[id]) = 2
           /\ last2[id][1].base.clicks <= last2[id][1].base.impressions) =>
            LET base == last2[id][1].base
                i == base.impressions + last2[id][1].inc[1] + last2[id][2].inc[1]
                c == base.clicks + last2[id][1].inc[2] + last2[id][2].inc[2]
                a == db[id].analytics
            IN /\ db[id].exists
               /\ a.impressions = i
               /\ a.clicks = c
               /\ CtrIsDerived(a.ctr, i, c)

C6_Witness ==
    \E id \in ReqIds :
        /\ Len(last2[id]) = 2
        /\ last2[id][1].inc = <<100, 10>>
        /\ last2[id][2].inc = <<50, 4>>
        /\ db[id].analytics.impressions = 150

\* C7: after a save the hook has left ctr = clicks / impressions * 100, and
\* ctr = 0 when impressions = 0, whatever ctr the document held.
C7_HookRecomputes ==
    hookSaves >= 1 =>
        CtrIsDerived(hookDoc.ctr, hookDoc.impressions, hookDoc.clicks)

\* C8: a save never changes impressions or clicks, and a second save in a
\* row leaves the ctr the first one left.
C8_HookIdempotent ==
    [][/\ hookDoc'.impressions = hookDoc.impressions
       /\ hookDoc'.clicks = hookDoc.clicks
       /\ hookSaves >= 1 => hookDoc'.ctr = hookDoc.ctr]_hookVars

C8_Witness ==
    /\ hookSaves = 2
    /\ hookDoc.impressions = 3 /\ hookDoc.clicks = 1
    /\ hookDoc.ctr = Frac(100, 3)

\* C9: a campaign just created has impressions 0, clicks 0 and ctr 0, in the
\* collection and in the 201 response, whatever the request body carried.
C9_CreatedWithZeroAnalytics ==
    (resp.op = "createCampaign" /\ resp.code = 201) =>
        /\ db[resp.id].exists
        /\ db[resp.id].analytics = DefaultAnalytics
        /\ resp.payload.analytics = DefaultAnalytics

C9_Witness ==
    /\ resp.op = "createCampaign" /\ resp.code = 201
    /\ {"analytics.impressions", "analytics.clicks", "analytics.ctr"} \subseteq resp.req.keys
    /\ resp.req.clicks = 2
    /\ db[resp.id].analytics.clicks = 0

\* C10: updateCampaign, updateCampaignDetails and updateCampaignStatus leave
\* the analytics of the campaign they update as they found them.
C10_EditsKeepAnalytics ==
    (resp.op \in {"updateCampaign", "updateCampaignDetails", "updateCampaignStatus"}
       /\ resp.code = 200) =>
        /\ db[resp.id].analytics.impressions = resp.read.impressions
        /\ db[resp.id].analytics.clicks = resp.read.clicks
        /\ db[resp.id].analytics.ctr = resp.read.ctr

\* --------------------------------------------------------------- C11 - C20
\* The step is the save of the analytics update in slot r, answered 200.
SavedOk(r) ==
    /\ inflight[r] # Idle /\ inflight'[r] = Idle
    /\ resp'.op = "updateCampaignAnalytics" /\ resp'.code = 200

\* C11: the save of an analytics update stores the counters the request
\* read plus its increment, whatever the record holds by then: when another
\* update was saved in between, its increment is gone from the record, yet
\* both were answered 200.
C11_SaveOverwritesWithReadPlusIncrement ==
    [][\A r \in Reqs :
         SavedOk(r) =>
           LET f == inflight[r] IN
           /\ db'[f.id].analytics.impressions = f.read.impressions + f.body[1].v
           /\ db'[f.id].analytics.clicks = f.read.clicks + f.body[2].v
           /\ (db[f.id].analytics.impressions > f.read.impressions =>
                 db'[f.id].analytics.impressions
                   < db[f.id].analytics.impressions + f.body[1].v)]_vars

\* Both updates of campaign 1 were answered 200 and one increment is lost.
C11_Witness ==
    /\ resp.op = "updateCampaignAnalytics" /\ resp.code = 200 /\ resp.id = 1
    /\ resp.read.impressions = 0
    /\ expected[1] = [impressions |-> 110, clicks |-> 15]
    /\ db[1].exists
    /\ db[1].analytics.impressions < expected[1].impressions
    /\ db[1].analytics.clicks < expected[1].clicks

Deleted(id) == id < nextId /\ ~db[id].exists

\* The step is the save of an analytics update that had begun earlier.
SaveStep == \E r \in Reqs : inflight[r] # Idle /\ inflight'[r] = Idle

\* C12: a deleted campaign stays deleted, whatever step follows (the save of
\* an update that read it before the delete included), and a later
\* getCampaign, getCampaignAnalytics or updateCampaignAnalytics that reaches
\* the lookup for its id is answered 404.
C12_DeletedStaysDeleted ==
    [][\A id \in Ids :
         Deleted(id) =>
           /\ Deleted(id)'
           /\ (/\ resp'.id = id
               /\ resp'.op \in {"getCampaign", "getCampaignAnalytics",
                                "updateCampaignAnalytics"}
               /\ ~SaveStep
               /\ resp'.code \notin {400, 500}) => resp'.code = 404]_vars

\* A save arrived after the delete of the campaign it had read.
C12_Witness ==
    /\ Deleted(1)
    /\ resp.op = "updateCampaignAnalytics" /\ resp.id = 1
    /\ resp.read.found /\ resp.code = 500
    /\ resp.req = <<Num(10), Num(5)>>

\* C13: PUT /:id/status is admin only: a status update that is answered 200,
\* and so stored, was asked by a user whose role is ADMIN.
C13_StatusAdminOnly ==
    (resp.op = "updateCampaignStatus" /\ resp.code = 200) => Role(caller) = "ADMIN"

\* C14: PUT /:id/analytics is behind bearer authentication: an analytics
\* update that is answered 200, and so stored, carried a valid token.
C14_AnalyticsNeedsToken ==
    (resp.op = "updateCampaignAnalytics" /\ resp.code = 200) => caller # Anon

\* C15: updateCampaignStatus answers 400 "Invalid status value" for every
\* status outside PENDING, ACTIVE, PAUSED, COMPLETED (a missing one
\* included) and leaves the collection as it was; for one of the four, on a
\* stored campaign, it stores the status and answers 200 with it.
C15_StatusValues ==
    [][(resp'.op = "updateCampaignStatus" /\ resp'.code \notin {401, 403}) =>
         /\ resp'.req \notin {"PENDING", "ACTIVE", "PAUSED", "COMPLETED"} =>
              /\ resp'.code = 400
              /\ resp'.message = "Invalid status value"
              /\ db' = db
         /\ resp'.code = 400 =>
              resp'.req \notin {"PENDING", "ACTIVE", "PAUSED", "COMPLETED"}
         /\ (/\ resp'.req \in {"PENDING", "ACTIVE", "PAUSED", "COMPLETED"}
             /\ db[resp'.id].exists /\ resp'.code # 500) =>
              /\ resp'.code = 200
              /\ db'[resp'.id].status = resp'.req
              /\ resp'.payload.status = resp'.req]_vars

C15_Witness ==
    /\ resp.op = "updateCampaignStatus" /\ resp.code = 200
    /\ resp.req = "PENDING"
    /\ db[resp.id].status = "PENDING"

\* C16: updateCampaign, deleteCampaign and getCampaignAnalytics asked by a
\* user who is not the campaign's advertiser answer 404 "Campaign not
\* found", change nothing and disclose no analytics.
C16_OwnerOnly ==
    [][(/\ resp'.op \in {"updateCampaign", "deleteCampaign", "getCampaignAnalytics"}
        /\ resp'.code \notin {401, 403, 500}) =>
         /\ (db[resp'.id].exists /\ db[resp'.id].advertiser # caller') =>
              /\ resp'.code = 404 /\ resp'.message = MsgNotFound
              /\ resp'.payload = NoPayload /\ ~resp'.read.found
              /\ db' = db
         /\ resp'.code = 200 =>
              (db[resp'.id].exists /\ db[resp'.id].advertiser = caller')]_vars

\* User u2, an advertiser, asked for campaign 1 of u1 after its counters grew.
C16_Witness ==
    /\ resp.op \in {"updateCampaign", "deleteCampaign"}
    /\ caller = "u2" /\ resp.code = 404 /\ resp.id = 1
    /\ db[1].exists /\ db[1].advertiser = "u1"
    /\ db[1].analytics.impressions > 0

\* C17: updateCampaignAnalytics for an id with no stored campaign answers
\* 404 to a numeric, non-negative increment and 400 to any other, and
\* changes no campaign.
C17_UnknownIdNotFound ==
    [][(/\ resp'.op = "updateCampaignAnalytics"
        /\ ~SaveStep
        /\ ~db[resp'.id].exists
        /\ resp'.code # 500) =>
         LET i == resp'.req[1]
             c == resp'.req[2]
             valid == i.t = "number" /\ c.t = "number" /\ i.v >= 0 /\ c.v >= 0
         IN /\ valid => (resp'.code = 404 /\ resp'.message = MsgNotFound)
            /\ ~valid => resp'.code = 400
            /\ db' = db
            /\ nextId' = nextId]_vars

\* Id 2 matches nothing while campaign 1 is stored with counters.
C17_Witness ==
    /\ resp.op = "updateCampaignAnalytics" /\ resp.code = 404 /\ resp.id = 2
    /\ ~db[2].exists
    /\ db[1].exists /\ db[1].analytics.impressions > 0

\* C18: the status of every stored campaign is ACTIVE, PAUSED or COMPLETED.
C18_StatusInSchemaEnum ==
    \A id \in ReqIds : db[id].exists => db[id].status \in {"ACTIVE", "PAUSED", "COMPLETED"}

\* C19: while analytics updates are the only writers of the counters (no
\* findOneAndUpdate or findByIdAndUpdate has written yet), no step of
\* updateCampaignAnalytics, begun in sequence or interleaved, lowers the
\* stored impressions or clicks of a campaign.
C19_CountersNeverDecrease ==
    [][(resp'.op = "updateCampaignAnalytics" /\ nEdits = 0) =>
         \A id \in ReqIds :
            (db[id].exists /\ db'[id].exists) =>
               /\ db'[id].analytics.impressions >= db[id].analytics.impressions
               /\ db'[id].analytics.clicks >= db[id].analytics.clicks]_vars

\* C20: whatever the interleaving, the record an analytics save leaves has
\* clicks <= impressions and the ctr derived from its own counters.
C20_SavedRecordConsistent ==
    [][\A r \in Reqs :
         SavedOk(r) =>
           LET a == db'[inflight[r].id].analytics IN
           /\ a.clicks <= a.impressions
           /\ CtrIsDerived(a.ctr, a.impressions, a.clicks)]_vars

\* A save that landed on a record another update had changed since the read.
C20_Witness ==
    /\ resp.op = "updateCampaignAnalytics" /\ resp.code = 200
    /\ db[resp.id].exists
    /\ expected[resp.id].impressions > db[resp.id].analytics.impressions
    /\ db[resp.id].analytics.impressions > 0

\* C21: the ctr the handler of updateCampaignAnalytics computed and assigned
\* is the ctr its save leaves in the record (the pre-save hook does not
\* change it, with new impressions 0 included), it is the ctr derived from
\* the stored counters, and the response reports that ctr to two decimals.
C21_CtrComputationsAgree ==
    [][\A r \in Reqs :
         SavedOk(r) =>
           LET f == inflight[r]
               a == db'[f.id].analytics
           IN /\ a.ctr = f.analytics.ctr
              /\ CtrIsDerived(a.ctr, a.impressions, a.clicks)
              /\ resp'.payload.ctr = ToFixed2(a.ctr)
              /\ (a.impressions = 0 => resp'.payload.ctr = 0)]_vars

\* A save with new impressions 0 on a record that held ctr 77: the handler
\* assigned 0 and the hook, which skips impressions 0, left it.
C21_Witness ==
    /\ resp.op = "updateCampaignAnalytics" /\ resp.code = 200
    /\ resp.read.ctr = FracOfInt(77)
    /\ db[resp.id].analytics.impressions = 0
    /\ db[resp.id].analytics.ctr = FracZero
    /\ resp.payload.ctr = 0

====
